---- MODULE Spec2Model ----
(***************************************************************************)
(* Model of scripts/collect_all_reports.py: the multi-repository collector *)
(* of GitHub Actions artifacts.                                            *)
(*                                                                         *)
(* Representation.  A Python str is a sequence of one-character strings;   *)
(* a literal the code concatenates as a whole ("run_list_failed:") is one  *)
(* element.  An Optional value is a sequence of length 0 (None) or 1.      *)
(* The standard output of a gh command is a record [text, json]: text is   *)
(* its characters, json the value json.loads gives for it (kind "invalid"  *)
(* when json.loads raises).  Of a run only databaseId, status and          *)
(* conclusion are kept: createdAt, displayTitle, workflowName and htmlUrl  *)
(* are copied through by the code and never inspected.                     *)
(***************************************************************************)
EXTENDS Integers, Sequences, FiniteSets, TLC

VARIABLES
    gh,         \* the gh executable on the runner: "ok", "absent", "fail"
    fileExists, \* whether args.repos_file exists
    content,    \* the characters of args.repos_file
    args,       \* parsed command line: [workflow, zip]
    pc,         \* position of main
    repos,      \* main's local `repos`
    i,          \* index in repos of the repository being processed
    item,       \* main's local `item` for the current repository
    items,      \* manifest["items"]
    effects,    \* external effects of the run so far, in order
    lastResp,   \* (rc, out) returned by the most recent run_capture
    manifest_json, \* Optional: the document at outdir/manifest.json
    exitCode,   \* Optional: exit status of the process
    pin,        \* pick_run harness: the argument `runs`
    pout,       \* pick_run harness: Optional returned run
    ppc         \* pick_run harness: position

vars == <<gh, fileExists, content, args, pc, repos, i, item, items, effects,
          lastResp, manifest_json, exitCode, pin, pout, ppc>>

mainVars == <<gh, fileExists, content, args, pc, repos, i, item, items, effects,
              lastResp, manifest_json, exitCode>>

pickVars == <<pin, pout, ppc>>

\* ------------------------------------------------------------------ bounds

MaxFileLen == 3
MaxRuns == 2
MaxPickRuns == 3

DefaultLimit == 30
TruncLen == 2000

\* ------------------------------------------------------------- str helpers

None == <<>>

Some(x) == <<x>>

IsSpace(c) == c \in {" ", "\n"}

RECURSIVE FirstNonSpace(_, _)
FirstNonSpace(s, k) ==
    IF k > Len(s) THEN k
    ELSE IF IsSpace(s[k]) THEN FirstNonSpace(s, k + 1) ELSE k

RECURSIVE LastNonSpace(_, _)
LastNonSpace(s, k) ==
    IF k < 1 THEN k
    ELSE IF IsSpace(s[k]) THEN LastNonSpace(s, k - 1) ELSE k

\* str.strip()
Strip(s) == SubSeq(s, FirstNonSpace(s, 1), LastNonSpace(s, Len(s)))

\* s[:n]
Prefix(s, n) == SubSeq(s, 1, IF Len(s) < n THEN Len(s) ELSE n)

\* str.startswith
StartsWith(s, p) == Len(s) >= Len(p) /\ SubSeq(s, 1, Len(p)) = p

RECURSIVE FirstNewline(_, _)
FirstNewline(s, k) ==
    IF k > Len(s) THEN k
    ELSE IF s[k] = "\n" THEN k ELSE FirstNewline(s, k + 1)

\* str.splitlines()
RECURSIVE SplitLines(_)
SplitLines(s) ==
    IF s = <<>> THEN <<>>
    ELSE LET k == FirstNewline(s, 1)
         IN <<SubSeq(s, 1, k - 1)>> \o SplitLines(SubSeq(s, k + 1, Len(s)))

LowerChar(c) ==
    CASE c = "S" -> "s" [] c = "U" -> "u" [] c = "C" -> "c" [] c = "E" -> "e"
      [] c = "F" -> "f" [] c = "A" -> "a" [] c = "I" -> "i" [] c = "L" -> "l"
      [] c = "R" -> "r"
      [] OTHER -> c

\* str.lower()
Lower(s) == [k \in 1..Len(s) |-> LowerChar(s[k])]

\* ------------------------------------------------------- read_repos_file

RECURSIVE ReadLoop(_, _, _)
ReadLoop(lines, k, acc) ==
    IF k > Len(lines) THEN acc
    ELSE LET s == Strip(lines[k])
         IN IF s = <<>> \/ StartsWith(s, <<"#">>)
            THEN ReadLoop(lines, k + 1, acc)
            ELSE ReadLoop(lines, k + 1, Append(acc, s))

\* mutant: comment lines are not skipped
RECURSIVE ReadLoop_KeepComments(_, _, _)
ReadLoop_KeepComments(lines, k, acc) ==
    IF k > Len(lines) THEN acc
    ELSE LET s == Strip(lines[k])
         IN IF s = <<>>
            THEN ReadLoop_KeepComments(lines, k + 1, acc)
            ELSE ReadLoop_KeepComments(lines, k + 1, Append(acc, s))

read_repos_file_KeepComments(text) == ReadLoop_KeepComments(SplitLines(text), 1, <<>>)

read_repos_file(text) == ReadLoop(SplitLines(text), 1, <<>>)

\* ----------------------------------------------------------- gh_list_runs

InvalidJson == [kind |-> "invalid", elems |-> <<>>]

\* `out or "[]"` followed by json.loads
json_loads(out) ==
    IF out.text = <<>> THEN [kind |-> "array", elems |-> <<>>] ELSE out.json

\* `for r in data` raises TypeError when data is not iterable; iterating a
\* non-empty dict or str yields str values, on which r.get raises.
IterRaises(data) == data.kind \in {"null", "object1"}

\* int(r.get("databaseId")) raises TypeError on None
ElemRaises(r) == r.databaseId = None

RunInfo(r) ==
    [database_id |-> r.databaseId[1],
     status      |-> IF r.status = None THEN "" ELSE r.status[1],
     conclusion  |-> r.conclusion]

gh_list_runs(resp) ==
    IF resp.rc # 0
    THEN [raised |-> FALSE, ok |-> FALSE, msg |-> Strip(resp.out.text), runs |-> <<>>]
    ELSE LET data == json_loads(resp.out)
         IN IF data.kind = "invalid"
            THEN [raised |-> FALSE, ok |-> FALSE,
                  msg |-> <<"json_parse_failed">>, runs |-> <<>>]
            ELSE IF IterRaises(data) \/ \E k \in 1..Len(data.elems) : ElemRaises(data.elems[k])
            THEN [raised |-> TRUE, ok |-> FALSE, msg |-> <<>>, runs |-> <<>>]
            ELSE [raised |-> FALSE, ok |-> TRUE, msg |-> <<"ok">>,
                  runs |-> [k \in 1..Len(data.elems) |-> RunInfo(data.elems[k])]]

\* --------------------------------------------------------------- pick_run

SuccessStr == <<"s", "u", "c", "c", "e", "s", "s">>

IsCompleted(r) == r.status = "completed"

\* mutant: the conclusion is compared without lower()
IsSuccess_CaseSensitive(r) ==
    (IF r.conclusion = None THEN <<>> ELSE r.conclusion[1]) = SuccessStr

\* (r.conclusion or "").lower() == "success"
IsSuccess(r) ==
    Lower(IF r.conclusion = None THEN <<>> ELSE r.conclusion[1]) = SuccessStr

pick_run(runs) ==
    LET completed == SelectSeq(runs, IsCompleted)
        success   == SelectSeq(completed, IsSuccess)
    IN IF success # <<>> THEN Some(success[1])
       ELSE IF completed # <<>> THEN Some(completed[1])
       ELSE IF runs # <<>> THEN Some(runs[1]) ELSE None

\* -------------------------------------------------------- gh_download_run

gh_download_run(resp) == [ok |-> resp.rc = 0, out |-> Strip(resp.out.text)]

\* ------------------------------------------------------------------- main

\* mutant: the exit status of `gh --version` is ignored
ensure_gh_IgnoreRc(rc) == "return"

ensure_gh(rc) == IF rc # 0 THEN "SystemExit" ELSE "return"

NewItem(repo, workflow) ==
    [repo |-> repo, workflow_filter |-> workflow, selected_run |-> None,
     download_ok |-> FALSE, error |-> None]

list_failed_item(it, msg) ==
    [it EXCEPT !.error = Some(<<"run_list_failed:">> \o msg)]

no_runs_item(it) == [it EXCEPT !.error = Some(<<"no_runs_found">>)]

selected_item(it, selected) ==
    [it EXCEPT !.selected_run =
        Some([databaseId |-> selected.database_id, status |-> selected.status,
              conclusion |-> selected.conclusion])]

\* mutant: the output is not truncated
download_error_NoTruncate(out_dl) == <<"download_failed:">> \o out_dl

download_error(out_dl) == <<"download_failed:">> \o Prefix(out_dl, TruncLen)

\* mutant: the error is set whatever the outcome
downloaded_item_AlwaysError(it, ok_dl, out_dl) ==
    [it EXCEPT !.download_ok = ok_dl, !.error = Some(download_error(out_dl))]

downloaded_item(it, ok_dl, out_dl) ==
    [it EXCEPT !.download_ok = ok_dl,
               !.error = IF ~ok_dl THEN Some(download_error(out_dl)) ELSE None]

Effect(op, idx, repo, run_id, workflow) ==
    [op |-> op, idx |-> idx, repo |-> repo, run_id |-> run_id,
     limit |-> IF op = "gh_run_list" THEN DefaultLimit ELSE 0,
     workflow |-> IF workflow = "" THEN None ELSE Some(workflow)]

\* mutant: the download is attempted twice
download_effects_Retry(idx, repo, run_id) ==
    <<Effect("write_run_meta", idx, repo, run_id, ""),
      Effect("gh_run_download", idx, repo, run_id, ""),
      Effect("gh_run_download", idx, repo, run_id, ""),
      Effect("write_download_log", idx, repo, run_id, "")>>

\* the external effects of lines 189-191
download_effects(idx, repo, run_id) ==
    <<Effect("write_run_meta", idx, repo, run_id, ""),
      Effect("gh_run_download", idx, repo, run_id, ""),
      Effect("write_download_log", idx, repo, run_id, "")>>

\* mutant: the loop stops one repository early
NextPc_StopsEarly(k, rs) == IF k >= Len(rs) THEN "write_manifest" ELSE "list_runs"

\* `for repo in repos`: the next iteration, or the code after the loop
NextPc(k, rs) == IF k > Len(rs) THEN "write_manifest" ELSE "list_runs"

\* ------------------------------------------------------------ environment

Rep(c, n) == [k \in 1..n |-> c]

\* contents of the repository-list file
Chars == {"\n", " ", "#", "a", "b"}

Contents == UNION {[1..n -> Chars] : n \in 0..MaxFileLen}

ArgSets == {[workflow |-> "", zip |-> FALSE], [workflow |-> "ci.yml", zip |-> TRUE]}

\* JSON objects gh may print for one run
ListElems ==
    {[databaseId |-> Some(1), status |-> Some("completed"),
      conclusion |-> Some(<<"S", "u", "c", "c", "e", "s", "s">>)],
     [databaseId |-> Some(2), status |-> Some("completed"),
      conclusion |-> Some(<<"f", "a", "i", "l", "u", "r", "e">>)],
     [databaseId |-> Some(3), status |-> Some("in_progress"), conclusion |-> None],
     [databaseId |-> None, status |-> None, conclusion |-> None]}

JsonOut(j) == [text |-> <<"<json>">>, json |-> j]

TextOut(t) == [text |-> t, json |-> InvalidJson]

\* standard output of `gh run list` when it exits 0
ListOuts ==
    {TextOut(<<>>), TextOut(<<"H", "T", "M", "L">>),
     JsonOut([kind |-> "null", elems |-> <<>>]),
     JsonOut([kind |-> "object0", elems |-> <<>>]),
     JsonOut([kind |-> "object1", elems |-> <<>>])}
    \cup {JsonOut([kind |-> "array", elems |-> e]) :
            e \in UNION {[1..n -> ListElems] : n \in 0..MaxRuns}}

\* combined output of a gh command that exits non-zero
ErrOuts == {TextOut(<<>>), TextOut(<<"e", "r", "r", "\n">>), TextOut(<<" ", "x">>)}

ListResponses ==
    {[rc |-> 0, out |-> o] : o \in ListOuts} \cup {[rc |-> 1, out |-> o] : o \in ErrOuts}

DownloadResponses ==
    {[rc |-> 0, out |-> TextOut(<<>>)]}
    \cup {[rc |-> 1, out |-> o] : o \in ErrOuts}
    \cup {[rc |-> 1, out |-> TextOut(<<"\n">> \o Rep("x", TruncLen + 1) \o <<"\n">>)]}

NoResp == [rc |-> 0, out |-> TextOut(<<>>)]

\* ---------------------------------------------------------------- actions

PickIdle == pin = <<>> /\ pout = None /\ ppc = "idle"

Init ==
    /\ gh \in {"ok", "absent", "fail"}
    /\ fileExists \in BOOLEAN
    /\ content \in IF gh = "ok" /\ fileExists THEN Contents ELSE {<<>>}
    /\ args \in ArgSets
    /\ pc = "ensure_gh"
    /\ repos = <<>>
    /\ i = 0
    /\ item = NewItem(<<>>, args.workflow)
    /\ items = <<>>
    /\ effects = <<>>
    /\ lastResp = NoResp
    /\ manifest_json = None
    /\ exitCode = None
    /\ PickIdle

\* an uncaught exception or SystemExit(str) ends the process with status 1
Die(how) ==
    /\ pc' = how
    /\ exitCode' = Some(1)

\* main, line 141
EnsureGh ==
    /\ pc = "ensure_gh"
    /\ effects' = Append(effects, Effect("gh_version", 0, <<>>, 0, ""))
    /\ IF gh = "absent"
       THEN /\ Die("crashed")
            /\ UNCHANGED lastResp
       ELSE /\ lastResp' = [rc |-> IF gh = "ok" THEN 0 ELSE 1, out |-> TextOut(<<"g", "h">>)]
            /\ IF ensure_gh(lastResp'.rc) = "SystemExit"
               THEN Die("aborted")
               ELSE pc' = "read_repos" /\ UNCHANGED exitCode
    /\ UNCHANGED <<gh, fileExists, content, args, repos, i, item, items, manifest_json>>
    /\ UNCHANGED pickVars

\* main, lines 143-153
ReadRepos ==
    /\ pc = "read_repos"
    /\ IF ~fileExists
       THEN /\ Die("crashed")
            /\ effects' = Append(effects, Effect("mkdir_outdir", 0, <<>>, 0, ""))
            /\ UNCHANGED <<repos, i>>
       ELSE /\ repos' = read_repos_file(content)
            /\ effects' = effects \o <<Effect("mkdir_outdir", 0, <<>>, 0, ""),
                                       Effect("read_repos", 0, <<>>, 0, "")>>
            /\ i' = 1
            /\ pc' = NextPc(1, repos')
            /\ UNCHANGED exitCode
    /\ UNCHANGED <<gh, fileExists, content, args, item, items, lastResp, manifest_json>>
    /\ UNCHANGED pickVars

\* main, lines 155-187: one iteration up to the download
ListRuns ==
    /\ pc = "list_runs"
    /\ \E resp \in ListResponses :
         LET repo == repos[i]
             it   == NewItem(repo, args.workflow)
             res  == gh_list_runs(resp)
             selected == pick_run(res.runs)
         IN /\ lastResp' = resp
            /\ effects' = Append(effects, Effect("gh_run_list", i, repo, 0, args.workflow))
            /\ IF res.raised
               THEN /\ Die("crashed")
                    /\ item' = it
                    /\ UNCHANGED <<items, i>>
               ELSE IF ~res.ok
               THEN /\ item' = list_failed_item(it, res.msg)
                    /\ items' = Append(items, item')
                    /\ i' = i + 1
                    /\ pc' = NextPc(i + 1, repos)
                    /\ UNCHANGED exitCode
               ELSE IF selected = None
               THEN /\ item' = no_runs_item(it)
                    /\ items' = Append(items, item')
                    /\ i' = i + 1
                    /\ pc' = NextPc(i + 1, repos)
                    /\ UNCHANGED exitCode
               ELSE /\ item' = selected_item(it, selected[1])
                    /\ pc' = "download"
                    /\ UNCHANGED <<items, i, exitCode>>
    /\ UNCHANGED <<gh, fileExists, content, args, repos, manifest_json>>
    /\ UNCHANGED pickVars

\* main, lines 186-199: the download and the end of the iteration
DownloadRun ==
    /\ pc = "download"
    /\ \E resp \in DownloadResponses :
         LET repo == repos[i]
             run_id == item.selected_run[1].databaseId
             dl == gh_download_run(resp)
         IN /\ lastResp' = resp
            /\ effects' = effects \o download_effects(i, repo, run_id)
            /\ item' = downloaded_item(item, dl.ok, dl.out)
            /\ items' = Append(items, item')
            /\ i' = i + 1
            /\ pc' = NextPc(i + 1, repos)
    /\ UNCHANGED <<gh, fileExists, content, args, repos, manifest_json, exitCode>>
    /\ UNCHANGED pickVars

\* main, lines 201-209
Finish ==
    /\ pc = "write_manifest"
    /\ manifest_json' = Some([workflow_filter |-> args.workflow, items |-> items])
    /\ effects' = effects \o <<Effect("write_manifest", 0, <<>>, 0, "")>>
                     \o (IF args.zip THEN <<Effect("zip_folder", 0, <<>>, 0, "")>> ELSE <<>>)
    /\ pc' = "done"
    /\ exitCode' = Some(0)
    /\ UNCHANGED <<gh, fileExists, content, args, repos, i, item, items, lastResp>>
    /\ UNCHANGED pickVars

Next == EnsureGh \/ ReadRepos \/ ListRuns \/ DownloadRun \/ Finish

Spec == Init /\ [][Next]_vars

\* ------------------------------------------------- pick_run on its own

PickStatuses == {"completed", "in_progress"}

PickConclusions ==
    {None, Some(<<>>), Some(SuccessStr),
     Some(<<"S", "U", "C", "C", "E", "S", "S">>),
     Some(<<"S", "u", "c", "c", "e", "s", "s">>),
     Some(<<"f", "a", "i", "l", "u", "r", "e">>)}

PickKinds == [status : PickStatuses, conclusion : PickConclusions]

\* lists of runs; the k-th run of a list has database_id k
PickInputs ==
    UNION {{[k \in 1..n |-> [database_id |-> k, status |-> f[k].status,
                              conclusion |-> f[k].conclusion]] :
              f \in [1..n -> PickKinds]} : n \in 0..MaxPickRuns}

PickInit ==
    /\ gh = "ok"
    /\ fileExists = FALSE
    /\ content = <<>>
    /\ args = [workflow |-> "", zip |-> FALSE]
    /\ pc = "idle"
    /\ repos = <<>>
    /\ i = 0
    /\ item = NewItem(<<>>, "")
    /\ items = <<>>
    /\ effects = <<>>
    /\ lastResp = NoResp
    /\ manifest_json = None
    /\ exitCode = None
    /\ pin \in PickInputs
    /\ pout = None
    /\ ppc = "call"

PickCall ==
    /\ ppc = "call"
    /\ pout' = pick_run(pin)
    /\ ppc' = "returned"
    /\ UNCHANGED pin
    /\ UNCHANGED mainVars

PickNext == PickCall

SpecPick == PickInit /\ [][PickNext]_vars

\* ----------------------------------------------------------------- claims

Min(S) == CHOOSE x \in S : \A y \in S : x <= y

Max(S) == CHOOSE x \in S : \A y \in S : y <= x

GhOps == {"gh_version", "gh_run_list", "gh_run_download"}

GhIdx == {e \in 1..Len(effects) : effects[e].op \in GhOps}

\* the most recent gh command is `op` for repository number k
LastGhIs(op, k) ==
    /\ GhIdx # {}
    /\ effects[Max(GhIdx)].op = op
    /\ effects[Max(GhIdx)].idx = k

\* C1 -- when main completes, the manifest holds one item per line of the
\* repository list that, once trimmed, is neither empty nor a comment, and
\* the k-th item names the k-th such line, trimmed.
C1_Breaks == {0} \cup {k \in 1..Len(content) : content[k] = "\n"}

C1_LineFrom(b) ==
    LET later == {k \in C1_Breaks \cup {Len(content) + 1} : k > b}
    IN SubSeq(content, b + 1, Min(later) - 1)

C1_Trim(l) ==
    LET ns == {k \in 1..Len(l) : l[k] # " "}
    IN IF ns = {} THEN <<>> ELSE SubSeq(l, Min(ns), Max(ns))

C1_Kept == {b \in C1_Breaks : b < Len(content) /\ C1_Trim(C1_LineFrom(b)) # <<>>
                                /\ C1_Trim(C1_LineFrom(b))[1] # "#"}

C1_KthKept(k) ==
    CHOOSE b \in C1_Kept : Cardinality({c \in C1_Kept : c < b}) = k - 1

C1_OneItemPerLine ==
    pc = "done" =>
        /\ manifest_json # None
        /\ Len(manifest_json[1].items) = Cardinality(C1_Kept)
        /\ \A k \in 1..Len(manifest_json[1].items) :
              manifest_json[1].items[k].repo = C1_Trim(C1_LineFrom(C1_KthKept(k)))

C1_Witness ==
    /\ pc = "done"
    /\ Len(manifest_json[1].items) = 2
    /\ manifest_json[1].items[1].repo # manifest_json[1].items[2].repo
    /\ manifest_json[1].items[1].selected_run = None
    /\ manifest_json[1].items[2].download_ok

\* C2 -- an item without a selected run never had a download command; an
\* item with a selected run had exactly one, for that run's id, and its
\* exit status is what download_ok records.
C2_Downloads(k) ==
    {e \in 1..Len(effects) : effects[e].op = "gh_run_download" /\ effects[e].idx = k}

C2_DownloadIffSelected ==
    \A k \in 1..Len(items) :
        /\ items[k].selected_run = None => C2_Downloads(k) = {}
        /\ items[k].selected_run # None =>
              /\ Cardinality(C2_Downloads(k)) = 1
              /\ \A e \in C2_Downloads(k) :
                    /\ effects[e].run_id = items[k].selected_run[1].databaseId
                    /\ effects[e].repo = items[k].repo
              /\ LastGhIs("gh_run_download", k) =>
                    items[k].download_ok = (lastResp.rc = 0)

C2_Witness ==
    /\ Len(items) = 2
    /\ items[1].selected_run = None
    /\ items[2].selected_run # None
    /\ ~items[2].download_ok
    /\ LastGhIs("gh_run_download", 2)

\* C3 -- pick_run returns the first completed run whose conclusion is
\* "success" in any letter case, else the first completed run, else the
\* first run, else nothing; it leaves the list as it was.
C3_Upper == <<"S", "U", "C", "C", "E", "S", "S">>

C3_SuccessAnyCase(c) ==
    /\ c # None
    /\ Len(c[1]) = Len(SuccessStr)
    /\ \A j \in 1..Len(SuccessStr) : c[1][j] = SuccessStr[j] \/ c[1][j] = C3_Upper[j]

C3_Expected(runs) ==
    LET comp == {k \in 1..Len(runs) : runs[k].status = "completed"}
        succ == {k \in comp : C3_SuccessAnyCase(runs[k].conclusion)}
    IN IF succ # {} THEN Some(runs[Min(succ)])
       ELSE IF comp # {} THEN Some(runs[Min(comp)])
       ELSE IF Len(runs) > 0 THEN Some(runs[1]) ELSE None

C3_PickRun ==
    [][ppc = "call" => (pin' = pin /\ pout' = C3_Expected(pin))]_vars

C3_Witness ==
    /\ ppc = "returned"
    /\ Len(pin) = 3
    /\ pin[1].status = "in_progress"
    /\ pin[2].status = "completed" /\ pin[2].conclusion = Some(<<"f", "a", "i", "l", "u", "r", "e">>)
    /\ pin[3].status = "completed" /\ pin[3].conclusion = Some(C3_Upper)
    /\ pout = Some(pin[3])

\* C4 -- a listing that exits non-zero, or exits zero with output that is
\* not a list of run objects carrying a databaseId, is recorded on the
\* repository's item and main goes on.
C4_Malformed(out) ==
    \/ out.json.kind # "array"
    \/ \E k \in 1..Len(out.json.elems) : out.json.elems[k].databaseId = None

C4_ListFailureNotFatal ==
    \A k \in 1..Len(repos) :
        (LastGhIs("gh_run_list", k) /\ (lastResp.rc # 0 \/ C4_Malformed(lastResp.out))) =>
            /\ pc \in {"list_runs", "write_manifest", "done"}
            /\ Len(items) >= k
            /\ items[k].selected_run = None
            /\ ~items[k].download_ok
            /\ items[k].error # None

\* C5 -- as stated: a failed download leaves an item whose error contains
\* the first TruncLen characters of the captured output, and every later
\* repository is still processed.
C5_Contains(s, t) ==
    \E o \in 0..(Len(s) - Len(t)) : SubSeq(s, o + 1, o + Len(t)) = t

C5_Failed(k) == LastGhIs("gh_run_download", k) /\ lastResp.rc # 0

C5_Original ==
    /\ \A k \in 1..Len(repos) :
          C5_Failed(k) =>
              /\ Len(items) >= k
              /\ items[k].selected_run # None
              /\ ~items[k].download_ok
              /\ items[k].error # None
              /\ C5_Contains(items[k].error[1], Prefix(lastResp.out.text, TruncLen))
    /\ (pc \in {"done", "crashed"}
          /\ \E k \in 1..Len(items) : items[k].selected_run # None /\ ~items[k].download_ok)
       => Len(items) = Len(repos)

\* C5 (amended) -- a failed download does not stop main: the item is
\* appended with its selected run, download_ok false and the error
\* "download_failed:" followed by the first TruncLen characters of the
\* captured output stripped of leading and trailing whitespace, and main
\* goes on to the next repository, or to the manifest after the last one.
C5_StrippedPrefix(e, s) ==
    /\ Len(e) <= TruncLen
    /\ \E a \in 0..Len(s) :
          /\ \A k \in 1..a : IsSpace(s[k])
          /\ a = Len(s) \/ ~IsSpace(s[a + 1])
          /\ a + Len(e) <= Len(s)
          /\ e = SubSeq(s, a + 1, a + Len(e))
          /\ \/ Len(e) = TruncLen
             \/ /\ \A k \in (a + Len(e) + 1)..Len(s) : IsSpace(s[k])
                /\ e = <<>> \/ ~IsSpace(e[Len(e)])

C5_DownloadFailureRecorded ==
    \A k \in 1..Len(repos) :
        C5_Failed(k) =>
            /\ Len(items) = k
            /\ items[k].repo = repos[k]
            /\ items[k].selected_run # None
            /\ ~items[k].download_ok
            /\ items[k].error # None
            /\ StartsWith(items[k].error[1], <<"download_failed:">>)
            /\ C5_StrippedPrefix(Tail(items[k].error[1]), lastResp.out.text)
            /\ i = k + 1
            /\ IF k < Len(repos) THEN pc = "list_runs" ELSE pc \in {"write_manifest", "done"}

C5_Witness ==
    /\ C5_Failed(1)
    /\ Len(repos) = 2
    /\ pc = "list_runs"
    /\ Len(lastResp.out.text) > TruncLen
    /\ Len(items[1].error[1]) = TruncLen + 1

\* C6 -- manifest.json is written at most once, after the last repository's
\* item has been appended, and holds all items.
C6_Writes == {e \in 1..Len(effects) : effects[e].op = "write_manifest"}

C6_ManifestWrittenOnceAtEnd ==
    /\ Cardinality(C6_Writes) <= 1
    /\ (C6_Writes # {}) = (manifest_json # None)
    /\ pc \in {"ensure_gh", "read_repos", "list_runs", "download", "write_manifest"}
          => manifest_json = None
    /\ manifest_json # None =>
          /\ pc = "done"
          /\ manifest_json[1].items = items
          /\ Len(items) = Len(repos)
          /\ \A e \in GhIdx : \A w \in C6_Writes : e < w

C6_Witness ==
    /\ manifest_json # None
    /\ Len(manifest_json[1].items) = 2
    /\ manifest_json[1].items[2].selected_run # None

\* C7 -- main exits 0 whenever the batch completes and exits non-zero only
\* when gh is missing or the repository list is missing, never because of
\* what happened for one repository.
C7_ExitCodeOnlyConfig ==
    /\ pc = "done" => exitCode = Some(0)
    /\ (exitCode # None /\ exitCode # Some(0)) => (gh # "ok" \/ ~fileExists)

\* C8 -- when gh is absent or its version check fails, main stops before
\* anything else: no listing, no download, no read of the repository list,
\* no manifest.
C8_Later == {"mkdir_outdir", "read_repos", "gh_run_list", "write_run_meta",
             "gh_run_download", "write_download_log", "write_manifest", "zip_folder"}

C8_GhMissingIsFatal ==
    gh # "ok" =>
        /\ \A e \in 1..Len(effects) : effects[e].op \notin C8_Later
        /\ manifest_json = None
        /\ repos = <<>> /\ items = <<>>
        /\ pc \in {"ensure_gh", "aborted", "crashed"}
        /\ pc # "ensure_gh" => (exitCode # None /\ exitCode # Some(0))

C8_Witness == gh = "fail" /\ pc = "aborted" /\ lastResp.rc # 0

\* C9 -- repositories are processed one at a time in list order, listing
\* before download, nothing for the next repository before the item of the
\* current one is appended, and every repository ends with its item in the
\* manifest list once main has stopped.
C9_Sequential ==
    /\ \A e1, e2 \in GhIdx :
          (e1 < e2 /\ effects[e1].idx > 0) =>
              /\ effects[e1].idx <= effects[e2].idx
              /\ effects[e1].idx = effects[e2].idx =>
                    (effects[e1].op = "gh_run_list" /\ effects[e2].op = "gh_run_download")
    /\ \A e \in GhIdx : effects[e].idx > 0 => Len(items) >= effects[e].idx - 1

C9_SequentialAndAllDone ==
    /\ C9_Sequential
    /\ (pc \in {"done", "crashed", "aborted"} /\ gh = "ok" /\ fileExists) =>
          (pc = "done" /\ Len(items) = Len(repos))

\* C10 -- every item of the written manifest is of one of three shapes:
\* no run, not downloaded, error "no_runs_found" or "run_list_failed:...";
\* a run, not downloaded, error "download_failed:..."; a run, downloaded,
\* no error.
C10_Shape1(it) ==
    /\ it.selected_run = None
    /\ ~it.download_ok
    /\ it.error # None
    /\ it.error = Some(<<"no_runs_found">>) \/ StartsWith(it.error[1], <<"run_list_failed:">>)

C10_Shape2(it) ==
    /\ it.selected_run # None
    /\ ~it.download_ok
    /\ it.error # None
    /\ StartsWith(it.error[1], <<"download_failed:">>)

C10_Shape3(it) ==
    /\ it.selected_run # None
    /\ it.download_ok
    /\ it.error = None

C10_ItemShapes ==
    /\ manifest_json # None =>
          \A k \in 1..Len(manifest_json[1].items) :
              LET it == manifest_json[1].items[k]
              IN /\ C10_Shape1(it) \/ C10_Shape2(it) \/ C10_Shape3(it)
                 /\ it.download_ok => it.selected_run # None
                 /\ (it.error = None) = it.download_ok
    /\ \A k \in 1..Len(items) :
          LastGhIs("gh_run_list", k) =>
              IF lastResp.rc # 0 \/ (lastResp.out.text # <<>> /\ lastResp.out.json.kind = "invalid")
              THEN items[k].error # None /\ StartsWith(items[k].error[1], <<"run_list_failed:">>)
              ELSE items[k].error = Some(<<"no_runs_found">>)

C10_Witness ==
    /\ manifest_json # None
    /\ Len(manifest_json[1].items) = 2
    /\ C10_Shape2(manifest_json[1].items[1])
    /\ manifest_json[1].items[2].error = Some(<<"no_runs_found">>)

====
